---- MODULE Spec2Model ----
(***************************************************************************)
(* Model of src/app.py: an IMAP mail-to-records pipeline.                  *)
(*                                                                         *)
(*   fetch_invoices            the mailbox session state machine           *)
(*   extract_text_from_message the message decoder                         *)
(*   extract_invoices_from_text, extract_user_from_text                    *)
(*                             the record extractor                        *)
(*   parse_invoice_date, build_report                                      *)
(*                             the reconciler                              *)
(*   build_search_criteria     the IMAP search filter                      *)
(*                                                                         *)
(* Strings are sequences of one-character strings, so that the regular     *)
(* expressions, strip(), strptime() and the string order are computed and  *)
(* not assumed.  String literals are ASCII: Cyrillic text of the source is  *)
(* transliterated, and the three literals the regular expressions look for *)
(* are single tokens of a text:                                            *)
(*   "KW" for "Приходная накл.", "UM" for "Пользователь:", "PR" for        *)
(*   "провел".  "NBSP" is U+00A0 and "&nbsp;" the HTML entity for it.      *)
(***************************************************************************)
EXTENDS Integers, Sequences, FiniteSets, TLC

VARIABLES
    \* fetch_invoices
    pc,           \* position of the run: start, config, connected, authed,
                  \* selected, loop, done, raised
    session,      \* the IMAP4_SSL object: none, open, closed
    mailbox,      \* server side: message id -> what a fetch of it returns
    seen,         \* server side: message id -> the \Seen flag
    seen0,        \* the \Seen flags before the run
    message_ids,  \* data[0].split()
    pos,          \* index in message_ids of the next msg_id of the for loop
    invoices,     \* the accumulated list
    error,        \* what the caller gets: none, KeyError, auth, connection
    cause,        \* the step and outcome that ended the run
    warnings,     \* msg_ids logged by logger.warning
    fetched,      \* the fetch outcomes so far, one per loop iteration
    \* extract_text_from_message / extract_invoices_from_text
    tpc,          \* idle, call, extracted, raised
    message,      \* the parsed message
    text,         \* the result of extract_text_from_message
    extracted,    \* the result of extract_invoices_from_text
    \* build_report and its caller main
    rpc,          \* idle, call, no_invoices, returned, raised
    caller,       \* main or direct
    records,      \* the argument of build_report
    report,       \* the rows of the returned DataFrame, in order
    \* build_search_criteria
    cpc,          \* idle, call, returned
    start_date, end_date, criteria

fetchVars == <<pc, session, mailbox, seen, seen0, message_ids, pos, invoices,
               error, cause, warnings, fetched>>
textVars == <<tpc, message, text, extracted>>
reportVars == <<rpc, caller, records, report>>
criteriaVars == <<cpc, start_date, end_date, criteria>>
vars == <<fetchVars, textVars, reportVars, criteriaVars>>

----------------------------------------------------------------------------
(* Bounds of the model. *)

\* the longest list of records handed to build_report
MaxRecords == 3
\* the longest text enumerated token by token
MaxTextLen == 6
\* the number of messages in the mailbox
MaxMessages == 2
\* the longest search window, in days after the start date
MaxWindow == 2

----------------------------------------------------------------------------
(* Strings. *)

\* The characters of the model in code point order (Cyrillic after Latin).
CharOrder ==
    <<"\n", " ", "(", ")", "-", ".", "/",
      "0", "1", "2", "3", "4", "5", "6", "7", "8", "9", "<", ">",
      "A", "B", "C", "D", "E", "F", "G", "H", "I", "J", "K", "L", "M",
      "N", "O", "P", "Q", "R", "S", "T", "U", "V", "W", "X", "Y", "Z",
      "a", "b", "c", "d", "e", "f", "g", "h", "i", "j", "k", "l", "m",
      "n", "o", "p", "q", "r", "s", "t", "u", "v", "w", "x", "y", "z",
      "&nbsp;", "NBSP", "KW", "UM", "PR">>

Ord(c) == CHOOSE i \in 1..Len(CharOrder) : CharOrder[i] = c

Digits == {"0", "1", "2", "3", "4", "5", "6", "7", "8", "9"}

DigitValue(c) == Ord(c) - Ord("0")

\* str.isspace(), and \s of a str pattern: U+00A0 is white space
IsSpace(c) == c \in {" ", "\n", "NBSP"}

Range(s) == {s[i] : i \in 1..Len(s)}

\* a < b for two str
RECURSIVE StrLess(_, _)
StrLess(a, b) ==
    IF b = <<>> THEN FALSE
    ELSE IF a = <<>> THEN TRUE
    ELSE IF Head(a) # Head(b) THEN Ord(Head(a)) < Ord(Head(b))
    ELSE StrLess(Tail(a), Tail(b))

\* str.strip()
RECURSIVE LStrip(_)
LStrip(s) == IF s # <<>> /\ IsSpace(Head(s)) THEN LStrip(Tail(s)) ELSE s

RECURSIVE RStrip(_)
RStrip(s) ==
    IF s # <<>> /\ IsSpace(s[Len(s)]) THEN RStrip(SubSeq(s, 1, Len(s) - 1)) ELSE s

Strip(s) == RStrip(LStrip(s))

\* "\n".join(parts)
RECURSIVE Join(_)
Join(parts) ==
    IF parts = <<>> THEN <<>>
    ELSE IF Len(parts) = 1 THEN parts[1]
    ELSE parts[1] \o <<"\n">> \o Join(Tail(parts))

\* int(s) of a string of digits
RECURSIVE IntOf(_)
IntOf(s) == IF s = <<>> THEN 0 ELSE 10 * IntOf(SubSeq(s, 1, Len(s) - 1)) + DigitValue(s[Len(s)])

\* s.split("."): the fields between the dots
RECURSIVE SplitDots(_, _)
SplitDots(s, field) ==
    IF s = <<>> THEN <<field>>
    ELSE IF Head(s) = "." THEN <<field>> \o SplitDots(Tail(s), <<>>)
    ELSE SplitDots(Tail(s), Append(field, Head(s)))

----------------------------------------------------------------------------
(* Dates: datetime.date as <<year, month, day>>. *)

IsLeap(y) == y % 4 = 0 /\ (y % 100 # 0 \/ y % 400 = 0)

DaysInMonth(y, m) ==
    IF m = 2 THEN (IF IsLeap(y) THEN 29 ELSE 28)
    ELSE IF m \in {4, 6, 9, 11} THEN 30 ELSE 31

\* datetime.date(y, m, d) raises ValueError outside these ranges
IsValidDate(y, m, d) ==
    /\ y \in 1..9999
    /\ m \in 1..12
    /\ d \in 1..DaysInMonth(y, m)

\* datetime.date.min
DateMin == <<1, 1, 1>>

\* a < b for two dates
DateLess(a, b) ==
    \/ a[1] < b[1]
    \/ a[1] = b[1] /\ a[2] < b[2]
    \/ a[1] = b[1] /\ a[2] = b[2] /\ a[3] < b[3]

\* date.toordinal(): days since 0001-01-01, which is day 1
RECURSIVE DaysBeforeMonth(_, _)
DaysBeforeMonth(y, m) ==
    IF m = 1 THEN 0 ELSE DaysBeforeMonth(y, m - 1) + DaysInMonth(y, m - 1)

DaysBeforeYear(y) ==
    (y - 1) * 365 + ((y - 1) \div 4) - ((y - 1) \div 100) + ((y - 1) \div 400)

ToOrdinal(d) == DaysBeforeYear(d[1]) + DaysBeforeMonth(d[1], d[2]) + d[3]

\* date.fromordinal(n), as datetime._ord2ymd computes it
FromOrdinal(n) ==
    LET n0 == n - 1
        n400 == n0 \div 146097
        r400 == n0 % 146097
        n100 == r400 \div 36524
        r100 == r400 % 36524
        n4 == r100 \div 1461
        r4 == r100 % 1461
        n1 == r4 \div 365
        r1 == r4 % 365
        year == n400 * 400 + 1 + n100 * 100 + n4 * 4 + n1
        leap == n1 = 3 /\ (n4 # 24 \/ n100 = 3)
        month0 == (r1 + 50) \div 32
        before0 == DaysBeforeMonth(IF leap THEN 2000 ELSE 2001, month0)
        month == IF before0 > r1 THEN month0 - 1 ELSE month0
        before == IF before0 > r1
                  THEN before0 - DaysInMonth(IF leap THEN 2000 ELSE 2001, month)
                  ELSE before0
    IN  IF n1 = 4 \/ n100 = 4 THEN <<year - 1, 12, 31>>
        ELSE <<year, month, r1 - before + 1>>

----------------------------------------------------------------------------
(* parse_invoice_date *)

IsDigits(s) == \A i \in 1..Len(s) : s[i] \in Digits

\* the directive %d of strptime: 3[0-1]|[1-2]\d|0[1-9]|[1-9]| [1-9]
MatchesDay(f) ==
    \/ Len(f) = 1 /\ f[1] \in Digits \ {"0"}
    \/ Len(f) = 2 /\ f[1] = "0" /\ f[2] \in Digits \ {"0"}
    \/ Len(f) = 2 /\ f[1] \in {"1", "2"} /\ f[2] \in Digits
    \/ Len(f) = 2 /\ f[1] = "3" /\ f[2] \in {"0", "1"}
    \/ Len(f) = 2 /\ f[1] = " " /\ f[2] \in Digits \ {"0"}

\* the directive %m: 1[0-2]|0[1-9]|[1-9]
MatchesMonth(f) ==
    \/ Len(f) = 1 /\ f[1] \in Digits \ {"0"}
    \/ Len(f) = 2 /\ f[1] = "0" /\ f[2] \in Digits \ {"0"}
    \/ Len(f) = 2 /\ f[1] = "1" /\ f[2] \in {"0", "1", "2"}

\* the directives %Y (\d\d\d\d) and %y (\d\d, 69..99 -> 19xx, 00..68 -> 20xx)
MatchesYear(f, fmt) == IsDigits(f) /\ Len(f) = (IF fmt = "%d.%m.%Y" THEN 4 ELSE 2)

YearOf(f, fmt) ==
    IF fmt = "%d.%m.%Y" THEN IntOf(f)
    ELSE IF IntOf(f) < 69 THEN 2000 + IntOf(f) ELSE 1900 + IntOf(f)

\* what stands for None and for a raised ValueError where a date is expected
NoDate == <<>>

\* datetime.datetime.strptime(s, fmt).date(), or NoDate for ValueError
Strptime(s, fmt) ==
    LET f == SplitDots(s, <<>>)
    IN  IF /\ Len(f) = 3
           /\ MatchesDay(f[1])
           /\ MatchesMonth(f[2])
           /\ MatchesYear(f[3], fmt)
        THEN LET y == YearOf(f[3], fmt)
                 m == IntOf(f[2])
                 d == IntOf(LStrip(f[1]))
             IN  IF IsValidDate(y, m, d) THEN <<y, m, d>> ELSE NoDate
        ELSE NoDate

\* the order in which the formats are tried
DateFormats == <<"%d.%m.%Y", "%d.%m.%y">>

\* parse_invoice_date(raw_date): a date, or NoDate for None
RECURSIVE TryFormats(_, _)
TryFormats(raw_date, fmts) ==
    IF fmts = <<>> THEN NoDate
    ELSE LET r == Strptime(Strip(raw_date), Head(fmts))
         IN  IF r # NoDate THEN r ELSE TryFormats(raw_date, Tail(fmts))

parse_invoice_date(raw_date) == TryFormats(raw_date, DateFormats)

----------------------------------------------------------------------------
(* build_report *)

\* EXCLUDED_USERS, transliterated
EXCLUDED_USERS ==
    {
      <<"A", "v", "r", "a", "m", "e", "n", "k", "o", " ", "N", "a", "t", "a", "l", "i", "y", "a">>,
      <<"V", "i", "f", "l", "y", "a", "n", "c", "e", "v", " ", "A", ".", "V", ".">>,
      <<"V", "o", "r", "o", "b", "e", "v", "a">>,
      <<"G", "o", "r", "n", "o", "s", "t", "a", "e", "v", "a">>,
      <<"G", "r", "i", "n", "c", "h", "u", "k", " ", "O", "l", "g", "a">>,
      <<"G", "u", "l", "u", "e", "v", "a", " ", "T", "a", "t", "y", "a", "n", "a">>,
      <<"D", "e", "g", "t", "y", "a", "r", "e", "v", " ", "A", "l", "e", "k", "s", "e", "y">>,
      <<"D", "e", "g", "t", "y", "a", "r", "e", "v", "a", " ", "O", ".", "A", ".">>,
      <<"D", "z", "h", "i", "o", "e", "v", "a", " ", "I", "r", "i", "n", "a", " ", "V", "i", "t", "a", "l", "e", "v", "n", "a">>,
      <<"Z", "a", "p", "o", "d", "o", "v", "n", "i", "k", "o", "v", "a", " ", "I", ".">>,
      <<"Z", "e", "l", "e", "n", "s", "k", "a", "y", "a", " ", "G", "a", "l", "i", "n", "a">>,
      <<"Z", "e", "m", "c", "o", "v", "a">>,
      <<"Z", "o", "l", "o", "t", "o", "v", "a", " ", "N", "a", "t", "a", "l", "y", "a">>,
      <<"K", "i", "r", "p", "i", "c", "h", "e", "v", "a">>,
      <<"K", "l", "i", "s", "h", "i", "n", "a", " ", "A", "l", "e", "k", "s", "a", "n", "d", "r", "a">>,
      <<"K", "o", "n", "t", "r", "o", "l", "l", "e", "r", "P", "e", "r", "e", "m", "e", "s", "c", "h", "e", "n", "i", "y", "a", "1">>,
      <<"K", "o", "r", "o", "n", "o", "v", "a", " ", "O", ".">>,
      <<"K", "u", "p", "r", "i", "y", "a", "n", "o", "v", "a", " ", "O", ".", "V", ".">>,
      <<"M", "a", "g", "a", "z", "i", "n", "P", "r", "i", "e", "m", "k", "a", "3">>,
      <<"M", "a", "y", "d", "a", "n", "i", "k", " ", "I", "r", "i", "n", "a">>,
      <<"P", "i", "m", "e", "n", "o", "v", "a", " ", "V", "a", "l", ".", "R", "o", "m", ".">>,
      <<"S", "k", "o", "r", "o", "b", "o", "g", "a", "t", "o", "v", "a", " ", "V", "e", "r", "a">>,
      <<"S", "t", "r", "o", "y", "g", "r", "a", "d", "S", "k", "l", "a", "d", "1">>
    }

\* a < b for two (invoice_number, raw_date, user) tuples
TupleLess(a, b) ==
    \/ StrLess(a[1], b[1])
    \/ a[1] = b[1] /\ StrLess(a[2], b[2])
    \/ a[1] = b[1] /\ a[2] = b[2] /\ StrLess(a[3], b[3])

\* sorted(S) of a set of tuples
RECURSIVE Sorted(_)
Sorted(S) ==
    IF S = {} THEN <<>>
    ELSE LET least == CHOOSE x \in S : \A y \in S \ {x} : TupleLess(x, y)
         IN  <<least>> \o Sorted(S \ {least})

\* unique_invoices = sorted(set(invoices))
UniqueInvoices(invs) == Sorted(Range(invs))

\* build_report without the exclusion filter
UnfilteredInvoices(unique) == unique

\* [... for ... in unique_invoices if user not in EXCLUDED_USERS]
FilteredInvoices(unique) == SelectSeq(unique, LAMBDA r : r[3] \notin EXCLUDED_USERS)

\* "_sort_date": parsed_date or datetime.date.min
SortDate(raw_date) ==
    LET parsed_date == parse_invoice_date(raw_date)
    IN  IF parsed_date = NoDate THEN DateMin ELSE parsed_date

\* the rows of the frame: the three columns and the sort key
Rows(filtered) ==
    [i \in 1..Len(filtered) |->
        [Invoice |-> filtered[i][1], Date |-> filtered[i][2],
         User |-> filtered[i][3], sort_date |-> SortDate(filtered[i][2])]]

\* the insertion sort numpy's quicksort runs on a short array: a row goes
\* behind every row whose key is not greater
RECURSIVE InsertRow(_, _)
InsertRow(sorted, row) ==
    IF sorted = <<>> THEN <<row>>
    ELSE IF DateLess(row.sort_date, sorted[Len(sorted)].sort_date)
         THEN Append(InsertRow(SubSeq(sorted, 1, Len(sorted) - 1), row),
                     sorted[Len(sorted)])
         ELSE Append(sorted, row)

RECURSIVE InsertionSort(_)
InsertionSort(rows) ==
    IF rows = <<>> THEN <<>>
    ELSE InsertRow(InsertionSort(SubSeq(rows, 1, Len(rows) - 1)), rows[Len(rows)])

\* the orders of the rows that are ascending by key
KeySortedOrders(rows) ==
    LET n == Len(rows)
        perms == {p \in [1..n -> 1..n] : \A i, j \in 1..n : i # j => p[i] # p[j]}
    IN  {[i \in 1..n |-> rows[p[i]]] : p \in
            {q \in perms : \A i \in 1..(n - 1) :
                ~DateLess(rows[q[i + 1]].sort_date, rows[q[i]].sort_date)}}

\* df.sort_values(by="_sort_date", ascending=True): kind="quicksort" on an
\* object column.  numpy's quicksort partitions while more than 16 elements
\* remain and finishes by insertion sort, so it keeps the order of equal keys
\* of a short frame and promises no order of equal keys of a longer one.
SortValues(rows) ==
    IF Len(rows) - 1 > 16 THEN KeySortedOrders(rows) ELSE {InsertionSort(rows)}

\* .drop(columns=["_sort_date"])
DropSortDate(rows) ==
    [i \in 1..Len(rows) |-> <<rows[i].Invoice, rows[i].Date, rows[i].User>>]

\* The strings the records of the model are made of.
InvoiceNumbers == {<<"1">>, <<"2">>}

RawDates ==
    { <<"0", "1", ".", "0", "2", ".", "2", "0", "2", "4">>,
      <<"0", "1", ".", "0", "2", ".", "2", "4">>,
      <<"3", "1", ".", "1", "3", ".", "2", "0", "2", "4">>,
      <<"0", "1", ".", "0", "1", ".", "0", "0", "0", "1">> }

\* "Неизвестно", the user of a text without a user
UnknownUser == <<"N", "e", "i", "z", "v", "e", "s", "t", "n", "o">>

Users == { <<"V", "o", "r", "o", "b", "e", "v", "a">>, UnknownUser }

RecordUniverse == InvoiceNumbers \X RawDates \X Users

SeqsUpTo(S, n) == UNION {[1..k -> S] : k \in 0..n}

\* main: if not invoices: st.warning(...); return
MainNoInvoices ==
    /\ rpc = "call"
    /\ caller = "main"
    /\ records = <<>>
    /\ rpc' = "no_invoices"
    /\ UNCHANGED <<caller, records, report>>
    /\ UNCHANGED <<fetchVars, textVars, criteriaVars>>

\* build_report returns the sorted frame
BuildReportReturns ==
    /\ rpc = "call"
    /\ caller = "main" => records # <<>>
    /\ LET filtered == FilteredInvoices(UniqueInvoices(records))
       IN  /\ filtered # <<>>
           /\ \E sorted \in SortValues(Rows(filtered)) :
                  report' = DropSortDate(sorted)
    /\ rpc' = "returned"
    /\ UNCHANGED <<caller, records>>
    /\ UNCHANGED <<fetchVars, textVars, criteriaVars>>

\* pd.DataFrame([]) has no column "_sort_date": sort_values raises KeyError
BuildReportRaises ==
    /\ rpc = "call"
    /\ caller = "main" => records # <<>>
    /\ FilteredInvoices(UniqueInvoices(records)) = <<>>
    /\ rpc' = "raised"
    /\ UNCHANGED <<caller, records, report>>
    /\ UNCHANGED <<fetchVars, textVars, criteriaVars>>

NextReport == MainNoInvoices \/ BuildReportReturns \/ BuildReportRaises

----------------------------------------------------------------------------
(* extract_text_from_message *)

\* re.sub(r"<[^>]+>", " ", payload): a "<", one or more characters other than
\* ">", and the first ">" become one space; a "<" that starts no such run stays
FirstIndexOf(s, c) ==
    IF c \in Range(s) THEN CHOOSE k \in 1..Len(s) : s[k] = c /\ \A i \in 1..(k - 1) : s[i] # c
    ELSE 0

RECURSIVE StripTags(_)
StripTags(s) ==
    IF s = <<>> THEN <<>>
    ELSE LET close == FirstIndexOf(Tail(s), ">")
         IN  IF Head(s) = "<" /\ close >= 2
             THEN <<" ">> \o StripTags(SubSeq(s, close + 2, Len(s)))
             ELSE <<Head(s)>> \o StripTags(Tail(s))

\* html.unescape: the entity of the model becomes its character
Unescape(s) == [i \in 1..Len(s) |-> IF s[i] = "&nbsp;" THEN "NBSP" ELSE s[i]]

\* "attachment" not in disposition, of the Content-Disposition values of the model
Dispositions == {"", "inline", "attachment", "inline; filename=attachment.txt"}

ContainsAttachment(disposition) ==
    disposition \in {"attachment", "inline; filename=attachment.txt"}

\* content_type in {"text/plain", "text/html"} and "attachment" not in disposition
IsSelectedPart(part) ==
    /\ part.content_type \in {"text/plain", "text/html"}
    /\ ~ContainsAttachment(part.disposition)

\* What part.get_content() does, and part.get_payload(decode=True) after it raised:
\*   "str"          get_content returns the decoded text
\*   "bytes"        get_content returns bytes (a content type that is not text)
\*   "raises"       get_content raises, get_payload returns bytes
\*   "raises_none"  get_content raises, get_payload returns None
\* A payload is [kind, chars] with kind str, bytes or None.
Payload(part) ==
    CASE part.content = "str" -> [kind |-> "str", chars |-> part.body]
      [] part.content = "bytes" -> [kind |-> "bytes", chars |-> part.body]
      [] part.content = "raises" -> [kind |-> "str", chars |-> part.body]
      [] part.content = "raises_none" -> [kind |-> "None", chars |-> <<>>]

\* if content_type == "text/html": payload = unescape(re.sub(...)); re.sub
\* raises TypeError on bytes
HtmlToText(part, payload) ==
    IF part.content_type # "text/html" THEN payload
    ELSE IF payload.kind = "bytes" THEN [kind |-> "TypeError", chars |-> <<>>]
    ELSE [kind |-> "str", chars |-> Unescape(StripTags(payload.chars))]

\* message.walk(): the container, then its parts
Walk(msg) ==
    <<[content_type |-> "multipart/mixed", disposition |-> "",
       content |-> "raises_none", body |-> <<>>]>> \o msg.parts

\* the loop over message.walk(): parts_text
RECURSIVE MultipartTexts(_)
MultipartTexts(parts) ==
    IF parts = <<>> THEN <<>>
    ELSE LET part == Head(parts)
             payload == Payload(part)
         IN  IF IsSelectedPart(part) /\ payload.kind # "None"
             THEN <<HtmlToText(part, payload)>> \o MultipartTexts(Tail(parts))
             ELSE MultipartTexts(Tail(parts))

\* the else branch: the message itself, whatever its type and disposition
SinglePartTexts(msg) ==
    LET part == msg.parts[1]
        payload == Payload(part)
    IN  <<HtmlToText(part, IF payload.kind = "None"
                           THEN [kind |-> "str", chars |-> <<>>]
                           ELSE payload)>>

PartsText(msg) ==
    IF msg.is_multipart THEN MultipartTexts(Walk(msg)) ELSE SinglePartTexts(msg)

\* "\n".join(parts_text) raises TypeError when an item is not a str
ExtractTextRaises(msg) ==
    \E i \in 1..Len(PartsText(msg)) : PartsText(msg)[i].kind # "str"

extract_text_from_message(msg) ==
    Join([i \in 1..Len(PartsText(msg)) |-> PartsText(msg)[i].chars])

----------------------------------------------------------------------------
(* extract_user_from_text, extract_invoices_from_text *)

\* the length of the run of white space that starts at t[i]
RECURSIVE SpaceRun(_, _)
SpaceRun(t, i) == IF i <= Len(t) /\ IsSpace(t[i]) THEN 1 + SpaceRun(t, i + 1) ELSE 0

\* r"Пользователь:\s*(.*?)\s+провел" tried at t[i]: \s* takes k characters
\* (as many as it can), (.*?) the next n (as few as it can, none a line
\* break), and \s+ the whole run of white space before "провел".
UserGroupOk(t, i, k, n) ==
    LET from == i + 1 + k
        spaces == SpaceRun(t, from + n)
    IN  /\ \A j \in from..(from + n - 1) : j <= Len(t) /\ t[j] # "\n"
        /\ spaces >= 1
        /\ from + n + spaces <= Len(t)
        /\ t[from + n + spaces] = "PR"

Max(S) == CHOOSE x \in S : \A y \in S : y <= x
Min(S) == CHOOSE x \in S : \A y \in S : x <= y

\* the group of the match at t[i], in a sequence; <<>> when there is no match
UserMatchAt(t, i) ==
    IF t[i] # "UM" THEN <<>>
    ELSE LET ks == {k \in 0..SpaceRun(t, i + 1) :
                        \E n \in 0..Len(t) : UserGroupOk(t, i, k, n)}
         IN  IF ks = {} THEN <<>>
             ELSE LET k == Max(ks)
                      n == Min({m \in 0..Len(t) : UserGroupOk(t, i, k, m)})
                  IN  <<SubSeq(t, i + 1 + k, i + k + n)>>

\* re.search: the match that starts first
RECURSIVE UserSearch(_, _)
UserSearch(t, i) ==
    IF i > Len(t) THEN <<>>
    ELSE IF UserMatchAt(t, i) # <<>> THEN UserMatchAt(t, i)
    ELSE UserSearch(t, i + 1)

\* extract_user_from_text(text): <<>> for None, <<user>> for a match
extract_user_from_text(t) ==
    IF UserSearch(t, 1) = <<>> THEN <<>> ELSE <<Strip(UserSearch(t, 1)[1])>>

\* [^\s(]: "KW" holds a space, so no run of such characters goes through it
IsNumberChar(c) == ~IsSpace(c) /\ c # "(" /\ c # "KW"

RECURSIVE NumberRun(_, _)
NumberRun(t, i) ==
    IF i <= Len(t) /\ IsNumberChar(t[i]) THEN 1 + NumberRun(t, i + 1) ELSE 0

\* the pattern with the date in parentheses made optional: a match without it
\* ends at the number and has no date
InvoiceMatchOptionalDate(t, i) ==
    LET s1 == SpaceRun(t, i + 1)
        num == i + 1 + s1
        n == NumberRun(t, num)
        s2 == SpaceRun(t, num + n)
        open == num + n + s2
        close == open + FirstIndexOf(SubSeq(t, open + 1, Len(t)), ")")
    IN  IF t[i] = "KW" /\ s1 >= 1 /\ n >= 1
        THEN IF open <= Len(t) /\ t[open] = "(" /\ close >= open + 2
             THEN <<[number |-> SubSeq(t, num, num + n - 1),
                     date |-> SubSeq(t, open + 1, close - 1),
                     end |-> close]>>
             ELSE <<[number |-> SubSeq(t, num, num + n - 1),
                     date |-> <<>>,
                     end |-> num + n - 1]>>
        ELSE <<>>

\* r"Приходная накл\.\s+([^\s(]+)\s*\(([^)]+)\)" tried at t[i]: <<>> when it
\* does not match, else the two groups and the index of the closing ")"
InvoiceMatchAt(t, i) ==
    LET s1 == SpaceRun(t, i + 1)
        num == i + 1 + s1
        n == NumberRun(t, num)
        s2 == SpaceRun(t, num + n)
        open == num + n + s2
        close == open + FirstIndexOf(SubSeq(t, open + 1, Len(t)), ")")
    IN  IF /\ t[i] = "KW"
           /\ s1 >= 1
           /\ n >= 1
           /\ open <= Len(t)
           /\ t[open] = "("
           /\ close >= open + 2
        THEN <<[number |-> SubSeq(t, num, num + n - 1),
                date |-> SubSeq(t, open + 1, close - 1),
                end |-> close]>>
        ELSE <<>>

\* re.findall: the matches from left to right, none overlapping another
RECURSIVE FindAll(_, _)
FindAll(t, i) ==
    IF i > Len(t) THEN <<>>
    ELSE LET m == InvoiceMatchAt(t, i)
         IN  IF m # <<>> THEN <<m[1]>> \o FindAll(t, m[1].end + 1)
             ELSE FindAll(t, i + 1)

\* user = extract_user_from_text(text) or "Неизвестно"
UserOrUnknown(t) ==
    LET user == extract_user_from_text(t)
    IN  IF user = <<>> \/ user[1] = <<>> THEN UnknownUser ELSE user[1]

extract_invoices_from_text(t) ==
    LET matches == FindAll(t, 1)
    IN  [i \in 1..Len(matches) |->
            <<matches[i].number, matches[i].date, UserOrUnknown(t)>>]

\* The texts and messages of the model.
TextAlphabet == {"KW", " ", "7", "(", ")"}

\* a text with a user and one invoice, one with two invoices and no user
TextWithUser ==
    <<"UM", " ", "I", "v", " ", "PR", " ", "KW", " ", "1", " ",
      "(", "0", "1", ".", "0", "2", ".", "2", "4", ")">>

TextTwoInvoices ==
    <<"KW", " ", "7", "(", "d", ")", "\n", "KW", "NBSP", "8", " ", "(", "e", ")">>

\* an invoice inside the date of another
TextNested ==
    <<"KW", " ", "1", " ", "(", "KW", " ", "2", " ", "(", "d", ")", ")">>

\* "<p>Приходная накл.&nbsp;777</p>"
HtmlNoDate == <<"<", "p", ">", "KW", "&nbsp;", "7", "7", "7", "<", "/", "p", ">">>

HtmlWithDate ==
    <<"<", "b", ">", "KW", "&nbsp;", "7", "<", "/", "b", ">", "(", "d", ")">>

Part(content_type, disposition, content, body) ==
    [content_type |-> content_type, disposition |-> disposition,
     content |-> content, body |-> body]

\* the parts of the model: text parts decode to str (or raise), others to bytes
TextParts ==
    { Part(ct, disp, content, body) :
        ct \in {"text/plain"}, disp \in Dispositions,
        content \in {"str", "raises", "raises_none"}, body \in {TextWithUser} }
    \cup { Part("text/html", disp, "str", body) :
             disp \in {"", "attachment"}, body \in {HtmlNoDate, HtmlWithDate} }
    \cup { Part("text/csv", "", "str", TextTwoInvoices) }

BinaryParts ==
    { Part("application/pdf", disp, "bytes", <<"7">>) : disp \in {"", "attachment"} }

SinglePart(part) == [is_multipart |-> FALSE, parts |-> <<part>>]

Multipart(parts) == [is_multipart |-> TRUE, parts |-> parts]

Messages ==
    { SinglePart(Part("text/plain", "", "str", body)) :
        body \in SeqsUpTo(TextAlphabet, MaxTextLen) }
    \cup { SinglePart(Part("text/plain", "", "str", body)) :
             body \in {TextTwoInvoices, TextNested} }
    \cup { SinglePart(part) : part \in TextParts \cup BinaryParts }
    \cup { Multipart(parts) : parts \in SeqsUpTo(TextParts \cup BinaryParts, 2) }

\* extract_text_from_message returns
ExtractText ==
    /\ tpc = "call"
    /\ ~ExtractTextRaises(message)
    /\ text' = extract_text_from_message(message)
    /\ tpc' = "decoded"
    /\ UNCHANGED <<message, extracted>>
    /\ UNCHANGED <<fetchVars, reportVars, criteriaVars>>

\* extract_text_from_message raises TypeError
ExtractTextTypeError ==
    /\ tpc = "call"
    /\ ExtractTextRaises(message)
    /\ tpc' = "raised"
    /\ UNCHANGED <<message, text, extracted>>
    /\ UNCHANGED <<fetchVars, reportVars, criteriaVars>>

\* extract_invoices_from_text(text)
ExtractInvoices ==
    /\ tpc = "decoded"
    /\ extracted' = extract_invoices_from_text(text)
    /\ tpc' = "extracted"
    /\ UNCHANGED <<message, text>>
    /\ UNCHANGED <<fetchVars, reportVars, criteriaVars>>

NextText == ExtractText \/ ExtractTextTypeError \/ ExtractInvoices

----------------------------------------------------------------------------
(* build_search_criteria *)

DigitChar(n) == CharOrder[Ord("0") + n]

MonthAbbr ==
    <<"Jan", "Feb", "Mar", "Apr", "May", "Jun",
      "Jul", "Aug", "Sep", "Oct", "Nov", "Dec">>

\* date.strftime("%d-%b-%Y")
Strftime(d) ==
    <<DigitChar(d[3] \div 10), DigitChar(d[3] % 10), "-", MonthAbbr[d[2]], "-",
      DigitChar(d[1] \div 1000), DigitChar((d[1] \div 100) % 10),
      DigitChar((d[1] \div 10) % 10), DigitChar(d[1] % 10)>>

\* the end date itself as the BEFORE bound
BeforeDateSameDay(end) == end

\* before_date = end_date + datetime.timedelta(days=1)
BeforeDate(end) == FromOrdinal(ToOrdinal(end) + 1)

\* f'"{sender}"'
Quoted(sender) == <<"\"", sender, "\"">>

build_search_criteria(sender, start, end) ==
    <<"FROM", Quoted(sender), "SINCE", Strftime(start),
      "BEFORE", Strftime(BeforeDate(end))>>

\* main: sender
Sender == "robot_volgorost@volgorost.ru"

\* The dates of the model: every day of a common year and of a leap year.
Years == {2023, 2024}

Dates == {<<y, m, d>> : y \in Years, m \in 1..12, d \in 1..31} \cap
         {date \in Int \X Int \X Int : IsValidDate(date[1], date[2], date[3])}

\* build_search_criteria(sender, start_date, end_date)
BuildSearchCriteria ==
    /\ cpc = "call"
    /\ criteria' = build_search_criteria(Sender, start_date, end_date)
    /\ cpc' = "returned"
    /\ UNCHANGED <<start_date, end_date>>
    /\ UNCHANGED <<fetchVars, textVars, reportVars>>

NextCriteria == BuildSearchCriteria

----------------------------------------------------------------------------
(* fetch_invoices *)

\* imap.logout() before the return only, with no with statement
LogoutOnReturnOnly(sess, how) ==
    IF sess = "open" /\ how = "return" THEN "closed" ELSE sess

\* The with statement: IMAP4_SSL.__exit__ logs out when the block is left, by
\* return or by an exception.
Release(sess, how) == IF sess = "open" THEN "closed" ELSE sess

\* except imaplib.IMAP4.error -> "Ошибка IMAP-аутентификации...";
\* except Exception -> "Ошибка подключения к IMAP...".  IMAP4.abort is a
\* subclass of IMAP4.error.
ExceptClause(exc) ==
    IF exc \in {"IMAP4.error", "IMAP4.abort"} THEN "auth" ELSE "connection"

\* an exception raised inside the try block at `step`
Raise(step, exc) ==
    /\ pc' = "raised"
    /\ error' = ExceptClause(exc)
    /\ cause' = <<step, exc>>
    /\ session' = Release(session, "exception")

\* the messages of the mailbox
MailMessages ==
    { SinglePart(Part("text/plain", "", "str", TextWithUser)),
      SinglePart(Part("text/html", "", "str", HtmlWithDate)),
      SinglePart(Part("application/pdf", "", "bytes", <<"7">>)) }

MsgIds == 1..MaxMessages

\* the ids of a set of messages in ascending order, as SEARCH lists them
RECURSIVE Ascending(_)
Ascending(S) ==
    IF S = {} THEN <<>> ELSE <<Min(S)>> \o Ascending(S \ {Min(S)})

\* email_config = load_email_config(); host = email_config["IMAP_HOST"] ...
LoadConfig ==
    /\ pc = "start"
    /\ pc' = "config"
    /\ UNCHANGED <<session, mailbox, seen, seen0, message_ids, pos, invoices,
                   error, cause, warnings, fetched>>
    /\ UNCHANGED <<textVars, reportVars, criteriaVars>>

\* st.secrets has no "email", or a key is missing: KeyError, outside the try
LoadConfigKeyError ==
    /\ pc = "start"
    /\ pc' = "raised"
    /\ error' = "KeyError"
    /\ cause' = <<"config", "KeyError">>
    /\ UNCHANGED <<session, mailbox, seen, seen0, message_ids, pos, invoices,
                   warnings, fetched>>
    /\ UNCHANGED <<textVars, reportVars, criteriaVars>>

\* with imaplib.IMAP4_SSL(host, port) as imap
Connect ==
    /\ pc = "config"
    /\ session' = "open"
    /\ pc' = "connected"
    /\ UNCHANGED <<mailbox, seen, seen0, message_ids, pos, invoices,
                   error, cause, warnings, fetched>>
    /\ UNCHANGED <<textVars, reportVars, criteriaVars>>

\* the constructor raises: no session was opened
ConnectRaises ==
    /\ pc = "config"
    /\ \E exc \in {"OSError", "IMAP4.error"} : Raise("connect", exc)
    /\ UNCHANGED <<mailbox, seen, seen0, message_ids, pos, invoices,
                   warnings, fetched>>
    /\ UNCHANGED <<textVars, reportVars, criteriaVars>>

\* imap.login(user, password)
Login ==
    /\ pc = "connected"
    /\ pc' = "authed"
    /\ UNCHANGED <<session, mailbox, seen, seen0, message_ids, pos, invoices,
                   error, cause, warnings, fetched>>
    /\ UNCHANGED <<textVars, reportVars, criteriaVars>>

\* the server rejects the login (IMAP4.error), or the connection fails
LoginRaises ==
    /\ pc = "connected"
    /\ \E exc \in {"IMAP4.error", "IMAP4.abort", "OSError"} : Raise("login", exc)
    /\ UNCHANGED <<mailbox, seen, seen0, message_ids, pos, invoices,
                   warnings, fetched>>
    /\ UNCHANGED <<textVars, reportVars, criteriaVars>>

\* status, _ = imap.select("INBOX"): OK
Select ==
    /\ pc = "authed"
    /\ pc' = "selected"
    /\ UNCHANGED <<session, mailbox, seen, seen0, message_ids, pos, invoices,
                   error, cause, warnings, fetched>>
    /\ UNCHANGED <<textVars, reportVars, criteriaVars>>

\* status != "OK": raise RuntimeError(...) inside the try; or select raises
SelectRaises ==
    /\ pc = "authed"
    /\ \E exc \in {"RuntimeError", "IMAP4.error", "IMAP4.abort", "OSError"} :
           Raise("select", exc)
    /\ UNCHANGED <<mailbox, seen, seen0, message_ids, pos, invoices,
                   warnings, fetched>>
    /\ UNCHANGED <<textVars, reportVars, criteriaVars>>

\* status, data = imap.search(None, *criteria): OK; message_ids = data[0].split()
Search ==
    /\ pc = "selected"
    /\ \E matched \in SUBSET MsgIds : message_ids' = Ascending(matched)
    /\ pos' = 1
    /\ pc' = "loop"
    /\ UNCHANGED <<session, mailbox, seen, seen0, invoices,
                   error, cause, warnings, fetched>>
    /\ UNCHANGED <<textVars, reportVars, criteriaVars>>

\* status != "OK": raise RuntimeError(...) inside the try; or search raises
SearchRaises ==
    /\ pc = "selected"
    /\ \E exc \in {"RuntimeError", "IMAP4.error", "IMAP4.abort", "OSError"} :
           Raise("search", exc)
    /\ UNCHANGED <<mailbox, seen, seen0, message_ids, pos, invoices,
                   warnings, fetched>>
    /\ UNCHANGED <<textVars, reportVars, criteriaVars>>

\* FETCH (RFC822) of a mailbox opened by SELECT (imap.select without
\* readonly=True): the server sets the \Seen flag of a message it returns
SeenAfterFetch(flags, msg_id) == [flags EXCEPT ![msg_id] = TRUE]

\* an iteration with status != "OK" or not msg_data: warning, continue
FetchSkipped ==
    /\ pc = "loop"
    /\ pos <= Len(message_ids)
    /\ \E outcome \in {"NO", "OK_empty"} : fetched' = Append(fetched, outcome)
    /\ warnings' = Append(warnings, message_ids[pos])
    /\ pos' = pos + 1
    /\ UNCHANGED <<pc, session, mailbox, seen, seen0, message_ids, invoices,
                   error, cause>>
    /\ UNCHANGED <<textVars, reportVars, criteriaVars>>

\* an iteration with status OK and msg_data = [None], what imaplib returns when
\* the server sent no FETCH data: msg_data[0][1] raises TypeError
FetchNoData ==
    /\ pc = "loop"
    /\ pos <= Len(message_ids)
    /\ fetched' = Append(fetched, "OK_None")
    /\ Raise("fetch", "TypeError")
    /\ UNCHANGED <<mailbox, seen, seen0, message_ids, pos, invoices, warnings>>
    /\ UNCHANGED <<textVars, reportVars, criteriaVars>>

\* imap.fetch raises
FetchRaises ==
    /\ pc = "loop"
    /\ pos <= Len(message_ids)
    /\ \E exc \in {"IMAP4.error", "IMAP4.abort", "OSError"} :
           /\ fetched' = Append(fetched, exc)
           /\ Raise("fetch", exc)
    /\ UNCHANGED <<mailbox, seen, seen0, message_ids, pos, invoices, warnings>>
    /\ UNCHANGED <<textVars, reportVars, criteriaVars>>

\* an iteration with the message: parse, extract_text_from_message,
\* extract_invoices_from_text, invoices.extend(extracted)
FetchMessage ==
    /\ pc = "loop"
    /\ pos <= Len(message_ids)
    /\ ~ExtractTextRaises(mailbox[message_ids[pos]])
    /\ fetched' = Append(fetched, "OK")
    /\ seen' = SeenAfterFetch(seen, message_ids[pos])
    /\ invoices' = invoices \o extract_invoices_from_text(
                       extract_text_from_message(mailbox[message_ids[pos]]))
    /\ pos' = pos + 1
    /\ UNCHANGED <<pc, session, mailbox, seen0, message_ids, error, cause, warnings>>
    /\ UNCHANGED <<textVars, reportVars, criteriaVars>>

\* an iteration with the message, and extract_text_from_message raises
FetchMessageRaises ==
    /\ pc = "loop"
    /\ pos <= Len(message_ids)
    /\ ExtractTextRaises(mailbox[message_ids[pos]])
    /\ fetched' = Append(fetched, "OK")
    /\ seen' = SeenAfterFetch(seen, message_ids[pos])
    /\ Raise("extract", "TypeError")
    /\ UNCHANGED <<mailbox, seen0, message_ids, pos, invoices, warnings>>
    /\ UNCHANGED <<textVars, reportVars, criteriaVars>>

\* return invoices, leaving the with block
Return ==
    /\ pc = "loop"
    /\ pos > Len(message_ids)
    /\ pc' = "done"
    /\ session' = Release(session, "return")
    /\ UNCHANGED <<mailbox, seen, seen0, message_ids, pos, invoices,
                   error, cause, warnings, fetched>>
    /\ UNCHANGED <<textVars, reportVars, criteriaVars>>

NextFetch ==
    \/ LoadConfig \/ LoadConfigKeyError
    \/ Connect \/ ConnectRaises
    \/ Login \/ LoginRaises
    \/ Select \/ SelectRaises
    \/ Search \/ SearchRaises
    \/ FetchSkipped \/ FetchNoData \/ FetchRaises
    \/ FetchMessage \/ FetchMessageRaises
    \/ Return

----------------------------------------------------------------------------
(* The specifications: one per component, the others at rest. *)

\* a run of fetch_invoices against a mailbox
InitFetch ==
    /\ pc = "start"
    /\ session = "none"
    /\ mailbox \in [MsgIds -> MailMessages]
    /\ seen0 \in [MsgIds -> BOOLEAN]
    /\ seen = seen0
    /\ message_ids = <<>>
    /\ pos = 1
    /\ invoices = <<>>
    /\ error = "none"
    /\ cause = <<"none", "none">>
    /\ warnings = <<>>
    /\ fetched = <<>>
    /\ tpc = "idle" /\ message = Multipart(<<>>) /\ text = <<>> /\ extracted = <<>>
    /\ rpc = "idle" /\ caller = "direct" /\ records = <<>> /\ report = <<>>
    /\ cpc = "idle" /\ start_date = DateMin /\ end_date = DateMin /\ criteria = <<>>

SpecFetch == InitFetch /\ [][NextFetch]_vars

\* a call of extract_text_from_message and of extract_invoices_from_text
InitDecode ==
    /\ tpc = "call"
    /\ message \in Messages
    /\ text = <<>>
    /\ extracted = <<>>
    /\ pc = "idle" /\ session = "none" /\ mailbox = <<>> /\ seen = <<>> /\ seen0 = <<>>
    /\ message_ids = <<>> /\ pos = 1 /\ invoices = <<>> /\ error = "none"
    /\ cause = <<"none", "none">> /\ warnings = <<>> /\ fetched = <<>>
    /\ rpc = "idle" /\ caller = "direct" /\ records = <<>> /\ report = <<>>
    /\ cpc = "idle" /\ start_date = DateMin /\ end_date = DateMin /\ criteria = <<>>

SpecText == InitDecode /\ [][NextText]_vars

\* a call of build_report, by main or directly
InitReconcile ==
    /\ rpc = "call"
    /\ caller \in {"main", "direct"}
    /\ records \in SeqsUpTo(RecordUniverse, MaxRecords)
    /\ report = <<>>
    /\ pc = "idle" /\ session = "none" /\ mailbox = <<>> /\ seen = <<>> /\ seen0 = <<>>
    /\ message_ids = <<>> /\ pos = 1 /\ invoices = <<>> /\ error = "none"
    /\ cause = <<"none", "none">> /\ warnings = <<>> /\ fetched = <<>>
    /\ tpc = "idle" /\ message = Multipart(<<>>) /\ text = <<>> /\ extracted = <<>>
    /\ cpc = "idle" /\ start_date = DateMin /\ end_date = DateMin /\ criteria = <<>>

SpecReport == InitReconcile /\ [][NextReport]_vars

\* a call of build_search_criteria with start_date <= end_date
InitCriteria ==
    /\ cpc = "call"
    /\ end_date \in Dates
    /\ \E days \in 0..MaxWindow : start_date = FromOrdinal(ToOrdinal(end_date) - days)
    /\ criteria = <<>>
    /\ pc = "idle" /\ session = "none" /\ mailbox = <<>> /\ seen = <<>> /\ seen0 = <<>>
    /\ message_ids = <<>> /\ pos = 1 /\ invoices = <<>> /\ error = "none"
    /\ cause = <<"none", "none">> /\ warnings = <<>> /\ fetched = <<>>
    /\ tpc = "idle" /\ message = Multipart(<<>>) /\ text = <<>> /\ extracted = <<>>
    /\ rpc = "idle" /\ caller = "direct" /\ records = <<>> /\ report = <<>>

SpecCriteria == InitCriteria /\ [][NextCriteria]_vars

\* any one of the four
Init == InitFetch \/ InitDecode \/ InitReconcile \/ InitCriteria

Next == NextFetch \/ NextText \/ NextReport \/ NextCriteria

Spec == Init /\ [][Next]_vars

----------------------------------------------------------------------------
(* Properties of fetch_invoices. *)

Terminal == pc \in {"done", "raised"}

\* C1: once the IMAP session has been opened, no terminal state of a run of
\* fetch_invoices (normal return, failed login, failed select, rejected
\* search, an exception while fetching, parsing or extracting) leaves it open.
C1_SessionReleased == Terminal => session # "open"

\* a run that opened the session and ended by an exception inside the loop
C1_Witness ==
    /\ pc = "raised"
    /\ cause[1] \in {"fetch", "extract"}
    /\ session = "closed"

\* C2: a message whose fetch fails or returns no data (status not OK, OK with
\* an empty result, OK with a result that carries no message data) is skipped
\* with a warning and the run continues: the loop goes on to the later
\* message ids and the run does not end at that message.
C2_SkipAndContinue ==
    \A i \in 1..Len(fetched) :
        fetched[i] \in {"NO", "OK_empty", "OK_None"} =>
            /\ message_ids[i] \in Range(warnings)
            /\ ~(pc = "raised" /\ Len(fetched) = i)

\* C3: every fatal failure is surfaced as the error kind of the step that
\* failed: the authentication error if and only if the server rejected the
\* login, a select that is not OK as mailbox-unavailable, a rejected search
\* as a search error, any other failure as a connection error.
C3_ErrorKinds ==
    (pc = "raised" /\ cause[1] # "config") =>
        /\ error = "auth" <=> cause = <<"login", "IMAP4.error">>
        /\ cause = <<"select", "RuntimeError">> => error = "mailbox_unavailable"
        /\ (cause[1] = "search" /\ cause[2] \in {"RuntimeError", "IMAP4.error"})
               => error = "search"
        /\ cause[2] = "OSError" => error = "connection"

\* C7: a run performs no write on the mailbox: the flags of every message are
\* the same after the run as before it.
C7_NoMailboxWrite == Terminal => seen = seen0

----------------------------------------------------------------------------
(* Properties of extract_text_from_message and extract_invoices_from_text. *)

\* the end of the longest run of characters of a class that starts at t[from]
\* (from - 1 when t[from] is not of the class)
RunEnd(t, from, class) ==
    IF from > Len(t) THEN from - 1
    ELSE CHOOSE k \in (from - 1)..Len(t) :
             /\ \A j \in from..k : t[j] \in class
             /\ k = Len(t) \/ t[k + 1] \notin class

SpaceChars == {" ", "\n", "NBSP"}

InvoiceNumberChars == Range(CharOrder) \ (SpaceChars \cup {"(", "KW"})

DateChars == Range(CharOrder) \ {")"}

\* the shape of an occurrence at t[i]: the literal, white space up to a, the
\* invoice number up to b, white space, "(" at c, the date, ")" at e
Shape(t, i) ==
    LET a == RunEnd(t, i + 1, SpaceChars)
        b == RunEnd(t, a + 1, InvoiceNumberChars)
        c == RunEnd(t, b + 1, SpaceChars) + 1
        e == RunEnd(t, c + 1, DateChars) + 1
    IN  [a |-> a, b |-> b, c |-> c, e |-> e]

\* "Приходная накл.", white space and an invoice number start at t[i]
HasNumberAt(t, i) ==
    /\ t[i] = "KW"
    /\ Shape(t, i).a >= i + 1
    /\ Shape(t, i).b >= Shape(t, i).a + 1

\* ... and a non-empty date in parentheses follows the number
HasDatedInvoiceAt(t, i) ==
    /\ HasNumberAt(t, i)
    /\ Shape(t, i).c <= Len(t)
    /\ t[Shape(t, i).c] = "("
    /\ Shape(t, i).e <= Len(t)
    /\ Shape(t, i).e >= Shape(t, i).c + 2

NumberAt(t, i) == SubSeq(t, Shape(t, i).a + 1, Shape(t, i).b)

DateAt(t, i) == SubSeq(t, Shape(t, i).c + 1, Shape(t, i).e - 1)

\* the occurrences a scan from left to right reports: those that do not start
\* inside an occurrence reported before
ReportedStarts(t) ==
    LET starts == {i \in 1..Len(t) : HasDatedInvoiceAt(t, i)}
    IN  CHOOSE S \in SUBSET starts :
            \A i \in starts :
                i \in S <=> \A j \in S : j < i => Shape(t, j).e < i

\* C6 (amended): extract_invoices_from_text yields one record for every
\* non-overlapping occurrence of "Приходная накл.", white space, an invoice
\* number, optional white space and a non-empty date in parentheses, in text
\* order, with that number and that date; an occurrence without the date in
\* parentheses yields no record.
C6_DatedOccurrences ==
    tpc = "extracted" =>
        LET starts == Ascending(ReportedStarts(text))
        IN  /\ Len(extracted) = Len(starts)
            /\ \A k \in 1..Len(starts) :
                   /\ extracted[k][1] = NumberAt(text, starts[k])
                   /\ extracted[k][2] = DateAt(text, starts[k])
                   /\ extracted[k][2] # <<>>
                   /\ extracted[k][3] = extracted[1][3]

\* the HTML body of the example: the number is found, no date follows, and
\* there is no record
C6_Witness ==
    /\ tpc = "extracted"
    /\ message = SinglePart(Part("text/html", "", "str", HtmlNoDate))
    /\ HasNumberAt(text, 2)
    /\ NumberAt(text, 2) = <<"7", "7", "7">>
    /\ extracted = <<>>

\* C6 as claimed: every occurrence of "Приходная накл.", white space and an
\* invoice number yields a record with that number, whether or not a date in
\* parentheses follows.
C6_RecordWithoutDate ==
    tpc = "extracted" =>
        \A i \in 1..Len(text) :
            HasNumberAt(text, i) =>
                \E k \in 1..Len(extracted) : extracted[k][1] = NumberAt(text, i)

\* the parts the rule selects: the parts of a multipart message, the message
\* itself otherwise
UsableTexts(msg) ==
    LET parts == SelectSeq(msg.parts,
                     LAMBDA part : IsSelectedPart(part) /\ Payload(part).kind # "None")
    IN  [i \in 1..Len(parts) |-> HtmlToText(parts[i], Payload(parts[i])).chars]

\* C8: the same selection rule for single-part and multipart messages: only
\* text/plain and text/html content that is not an attachment contributes,
\* and a message with no such part yields the empty string, not an error.
C8_SameSelectionRule ==
    (tpc \in {"decoded", "raised"}) =>
        /\ tpc # "raised"
        /\ text = Join(UsableTexts(message))

----------------------------------------------------------------------------
(* Properties of build_report. *)

\* C4: the rows of a returned report are exactly the distinct
\* (invoiceNumber, rawDate, user) tuples of the input whose user is not in
\* EXCLUDED_USERS, each in exactly one row, with the raw date unmodified.
C4_ReportRows ==
    rpc = "returned" =>
        /\ Range(report) = {r \in Range(records) : r[3] \notin EXCLUDED_USERS}
        /\ \A i, j \in 1..Len(report) : i # j => report[i] # report[j]

\* a report of an input with a repeated tuple and an excluded user
C4_Witness ==
    /\ rpc = "returned"
    /\ \E i, j \in 1..Len(records) :
           i # j /\ records[i] = records[j] /\ records[i] \in Range(report)
    /\ \E i \in 1..Len(records) : records[i][3] \in EXCLUDED_USERS

IsUnparseable(raw_date) == parse_invoice_date(raw_date) = NoDate

\* C5: the rows are ascending by resolved date (the parsed date, the minimum
\* date when neither format parses), rows with unparseable dates come before
\* all rows with parseable dates, and rows with the same resolved date are in
\* the ascending order of their tuples.
C5_ReportOrder ==
    rpc = "returned" =>
        \A i, j \in 1..Len(report) :
            i < j =>
                /\ ~DateLess(SortDate(report[j][2]), SortDate(report[i][2]))
                /\ ~(IsUnparseable(report[j][2]) /\ ~IsUnparseable(report[i][2]))
                /\ SortDate(report[i][2]) = SortDate(report[j][2])
                       => TupleLess(report[i], report[j])

\* C10: build_report is total: it returns a report for every input, the
\* empty one and one whose users are all excluded among them.
C10_BuildReportTotal == rpc # "raised"

----------------------------------------------------------------------------
(* Properties of build_search_criteria. *)

\* the calendar day after d
NextCalendarDay(d) ==
    IF d[3] < DaysInMonth(d[1], d[2]) THEN <<d[1], d[2], d[3] + 1>>
    ELSE IF d[2] < 12 THEN <<d[1], d[2] + 1, 1>>
    ELSE <<d[1] + 1, 1, 1>>

\* C9: for start <= end the filter is FROM sender, SINCE start, BEFORE the
\* calendar day after the end date, across month and year boundaries; the
\* window that ends on 2024-01-31 has the upper bound 01-Feb-2024.
C9_SearchWindow ==
    cpc = "returned" =>
        /\ criteria = <<"FROM", <<"\"", Sender, "\"">>,
                        "SINCE", Strftime(start_date),
                        "BEFORE", Strftime(NextCalendarDay(end_date))>>
        /\ end_date = <<2024, 1, 31>> =>
               criteria[6] = <<"0", "1", "-", "Feb", "-", "2", "0", "2", "4">>
        /\ end_date = <<2024, 2, 28>> =>
               criteria[6] = <<"2", "9", "-", "Feb", "-", "2", "0", "2", "4">>

\* the window that ends on the last day of a year
C9_Witness ==
    /\ cpc = "returned"
    /\ end_date = <<2024, 12, 31>>
    /\ start_date = <<2024, 12, 30>>
    /\ criteria[6] = <<"0", "1", "-", "Jan", "-", "2", "0", "2", "5">>

====
